---- MODULE Spec2Model ----
(***************************************************************************)
(* GeoSentinal dashboard (src/app.py): the risk scorer, the per-tick       *)
(* assessment cycle with its rolling history buffer, the per-bench map     *)
(* layers and the CSV export.                                              *)
(*                                                                         *)
(* Numbers.  rainfall, blast and slope are Python ints and are plain       *)
(* integers here.  Every other reading and every score is a Python float;  *)
(* it is held in hundredths ("centi"): 1.0 mm/s is 100, a score of 26.5 is *)
(* 2650.  Over the whole slider range the float arithmetic of              *)
(* compute_score in Manual mode agrees with this exact arithmetic on the   *)
(* rounded score, on the class and on the layer offsets.                   *)
(***************************************************************************)
EXTENDS Integers, Sequences, FiniteSets, TLC

VARIABLES
    history,          \* app.py:85  the module-wide list of history records
    rng,              \* the state of the process-wide generator of `random`
    groups,           \* app.py:72  the groups of the catalog
    dem_overlay_path, \* app.py:20  TRUE when the DEM overlay was preloaded
    ui,               \* the browser's controls: sliders, mode, DEM box, timer
    ret,              \* what the last callback invocation returned
    appended,         \* ghost: every record any invocation appended, in order
    calls,            \* ghost: number of update_dashboard invocations so far
    manual,           \* ghost: the outcomes of the Manual invocations so far
    pc,               \* per worker thread: its place inside its callback
    req,              \* per worker thread: the request it is serving
    seen              \* ghost: the largest buffer length any observer read

vars == <<history, rng, groups, dem_overlay_path, ui, ret, appended, calls,
          manual, pc, req, seen>>

----------------------------------------------------------------------------
(* Bounds of the model *)

\* invocations of update_dashboard in a run of Spec
MaxCalls == 4
\* invocations of update_dashboard in a run of SpecCap (beyond the cap of 200)
CapCalls == 202
\* in SpecCap the user edits the controls during the first EditCalls invocations
EditCalls == 2
\* requests served in a run of SpecConc
ConcCalls == 203

\* the cap of the history buffer
HistoryCap == 200

\* initial states of the generator
Seeds == {1, 40000}

\* the slider positions the user moves a slider to (each within the slider's
\* range and on its step); vibration in centi
SliderValues(id) ==
    CASE id = "rain1"  -> {10}
      [] id = "vib1"   -> {100, 370, 820}
      [] id = "blast1" -> {0, 1}
      [] id = "rain2"  -> {10, 200}
      [] id = "vib2"   -> {100, 1000}
      [] id = "blast2" -> {0, 5}

SliderIds == {"rain1", "vib1", "blast1", "rain2", "vib2", "blast2"}

----------------------------------------------------------------------------
(* The random source *)

\* one step of the generator: a full-period linear congruential generator
\* stands for the Mersenne Twister behind random.uniform and random.randint
NextRandom(x) == (x * 75 + 74) % 65537

\* random.randint(a, b): an integer N with a <= N <= b
randint(a, b, x) ==
    LET y == NextRandom(x) IN [val |-> a + (y % (b - a + 1)), rng |-> y]

\* random.uniform(a, b) sampled at hundredths: a, b and the value are centi
uniform(a, b, x) ==
    LET y == NextRandom(x) IN [val |-> a + (y % (b - a + 1)), rng |-> y]

\* round(x, 1) of a non-negative float: to the nearest tenth (x is centi, so
\* to the nearest multiple of 10); an exact tie goes to the even tenth
round1(x) ==
    LET q == x \div 10
        r == x % 10
    IN  IF r < 5 THEN 10 * q
        ELSE IF r > 5 THEN 10 * (q + 1)
        ELSE IF q % 2 = 0 THEN 10 * q ELSE 10 * (q + 1)

----------------------------------------------------------------------------
(* Helpers *)

risk_color(level) ==
    CASE level = "Low"    -> "#4CAF50"
      [] level = "Medium" -> "#F4C430"
      [] level = "High"   -> "#E53935"
      [] OTHER            -> "#4CAF50"

risk_icon(level) ==
    CASE level = "Low"    -> "green"
      [] level = "Medium" -> "yellow"
      [] level = "High"   -> "red"
      [] OTHER            -> "green"

\* compute_score with both thresholds inclusive (score <= 40, score <= 70)
compute_score_inclusive(rain, vib, blast, slope, deterministic, x) ==
    LET mult  == IF deterministic THEN [val |-> 200, rng |-> x]
                 ELSE uniform(150, 300, x)
        noise == IF deterministic THEN [val |-> 0, rng |-> mult.rng]
                 ELSE uniform(-500, 500, mult.rng)
        score == slope * 50 + rain * 40 + (vib + blast * mult.val) * 5
                 + blast * 300 + noise.val
    IN  [risk  |-> IF score <= 4000 THEN "Low"
                   ELSE IF score <= 7000 THEN "Medium"
                   ELSE "High",
         score |-> score,
         rng   |-> noise.rng,
         draws |-> IF deterministic THEN 0 ELSE 2]

\* compute_score whose deterministic blast multiplier is 1.5, the low end of
\* the random range, instead of 2.0
compute_score_low_multiplier(rain, vib, blast, slope, deterministic, x) ==
    LET mult  == IF deterministic THEN [val |-> 150, rng |-> x]
                 ELSE uniform(150, 300, x)
        noise == IF deterministic THEN [val |-> 0, rng |-> mult.rng]
                 ELSE uniform(-500, 500, mult.rng)
        score == slope * 50 + rain * 40 + (vib + blast * mult.val) * 5
                 + blast * 300 + noise.val
    IN  [risk  |-> IF score < 4000 THEN "Low"
                   ELSE IF score < 7000 THEN "Medium"
                   ELSE "High",
         score |-> score,
         rng   |-> noise.rng,
         draws |-> IF deterministic THEN 0 ELSE 2]

\* compute_score that ignores the deterministic flag and always draws
compute_score_always_random(rain, vib, blast, slope, deterministic, x) ==
    LET mult  == uniform(150, 300, x)
        noise == uniform(-500, 500, mult.rng)
        score == slope * 50 + rain * 40 + (vib + blast * mult.val) * 5
                 + blast * 300 + noise.val
    IN  [risk  |-> IF score < 4000 THEN "Low"
                   ELSE IF score < 7000 THEN "Medium"
                   ELSE "High",
         score |-> score,
         rng   |-> noise.rng,
         draws |-> 2]

\* compute_score(rain, vib, blast, slope, deterministic) with the generator
\* state x it starts from; vib and the returned score are centi
compute_score(rain, vib, blast, slope, deterministic, x) ==
    LET mult  == IF deterministic THEN [val |-> 200, rng |-> x]
                 ELSE uniform(150, 300, x)
        vib_from_blast == (blast * mult.val)
        total_vib      == vib + vib_from_blast
        noise == IF deterministic THEN [val |-> 0, rng |-> mult.rng]
                 ELSE uniform(-500, 500, mult.rng)
        score == slope * 50 + rain * 40 + total_vib * 5 + blast * 300 + noise.val
    IN  [risk  |-> IF score < 4000 THEN "Low"
                   ELSE IF score < 7000 THEN "Medium"
                   ELSE "High",
         score |-> score,
         rng   |-> noise.rng,
         draws |-> IF deterministic THEN 0 ELSE 2]

----------------------------------------------------------------------------
(* Data *)

\* the bench catalog (the polygons only place the map markers)
benches ==
    << [id |-> "Bench 1", slope |-> 35],
       [id |-> "Bench 2", slope |-> 50],
       [id |-> "Bench 3", slope |-> 45],
       [id |-> "Bench 4", slope |-> 60] >>

\* the groups as the source defines them
CatalogGroups ==
    << [benches |-> <<"Bench 1", "Bench 2">>],
       [benches |-> <<"Bench 3", "Bench 4">>] >>

NoBench == [id |-> "StopIteration", slope |-> 0]

\* next(b for b in benches if b["id"] == bench_id): the first bench with the
\* id, and StopIteration (NoBench) when there is none
find_bench(bench_id) ==
    LET hits == {i \in 1..Len(benches) : benches[i].id = bench_id}
    IN  IF hits = {} THEN NoBench
        ELSE benches[CHOOSE i \in hits : \A j \in hits : i <= j]

\* the layout's controls as the page first shows them
DefaultUi ==
    [rain1 |-> 10, vib1 |-> 100, blast1 |-> 0,
     rain2 |-> 10, vib2 |-> 100, blast2 |-> 0,
     mode |-> "Manual", show_dem |-> FALSE, timer_disabled |-> TRUE,
     loaded |-> FALSE]

----------------------------------------------------------------------------
(* update_dashboard, piece by piece *)

\* the six readings the callback receives from the sliders
slider_args(u) ==
    [rain1 |-> u.rain1, vib1 |-> u.vib1, blast1 |-> u.blast1,
     rain2 |-> u.rain2, vib2 |-> u.vib2, blast2 |-> u.blast2]

\* draw_readings without the round(..., 1) of the two vibration draws
draw_readings_unrounded(args, mode, x) ==
    IF mode = "Auto"
    THEN LET r1 == randint(0, 200, x)
             v1 == uniform(0, 1000, r1.rng)
             b1 == randint(0, 5, v1.rng)
             r2 == randint(0, 200, b1.rng)
             v2 == uniform(0, 1000, r2.rng)
             b2 == randint(0, 5, v2.rng)
         IN  [in |-> [rain1 |-> r1.val, vib1 |-> v1.val, blast1 |-> b1.val,
                      rain2 |-> r2.val, vib2 |-> v2.val, blast2 |-> b2.val],
              rng |-> b2.rng, draws |-> 6]
    ELSE [in |-> args, rng |-> x, draws |-> 0]

\* app.py:205-207: in Auto the six arguments are overwritten by fresh draws,
\* in the order rain1, vib1, blast1, rain2, vib2, blast2
draw_readings(args, mode, x) ==
    IF mode = "Auto"
    THEN LET r1 == randint(0, 200, x)
             v1 == uniform(0, 1000, r1.rng)
             b1 == randint(0, 5, v1.rng)
             r2 == randint(0, 200, b1.rng)
             v2 == uniform(0, 1000, r2.rng)
             b2 == randint(0, 5, v2.rng)
         IN  [in |-> [rain1 |-> r1.val, vib1 |-> round1(v1.val), blast1 |-> b1.val,
                      rain2 |-> r2.val, vib2 |-> round1(v2.val), blast2 |-> b2.val],
              rng |-> b2.rng, draws |-> 6]
    ELSE [in |-> args, rng |-> x, draws |-> 0]

\* one (bench id, group reading) pair per iteration of the nested loops of
\* app.py:210-212, in iteration order
group_jobs(g, gr, gv, gb) ==
    [i \in 1..Len(g.benches) |->
        [bench_id |-> g.benches[i], gr |-> gr, gv |-> gv, gb |-> gb]]

\* bench_jobs that hands the first group's reading to both groups
bench_jobs_first_reading(gs, in) ==
    group_jobs(gs[1], in.rain1, in.vib1, in.blast1)
        \o group_jobs(gs[2], in.rain1, in.vib1, in.blast1)

bench_jobs(gs, in) ==
    group_jobs(gs[1], in.rain1, in.vib1, in.blast1)
        \o group_jobs(gs[2], in.rain2, in.vib2, in.blast2)

\* score_benches that skips a bench id the catalog does not hold
RECURSIVE score_benches_skipping(_, _, _)
score_benches_skipping(todo, deterministic, st) ==
    IF todo = <<>> THEN st
    ELSE LET j     == Head(todo)
             bench == find_bench(j.bench_id)
         IN  IF bench = NoBench
             THEN score_benches_skipping(Tail(todo), deterministic, st)
             ELSE LET c == compute_score(j.gr, j.gv, j.gb, bench.slope,
                                         deterministic, st.rng)
                      r == [Bench |-> j.bench_id, Slope |-> bench.slope,
                            Rainfall |-> j.gr, Vibration |-> j.gv,
                            Blast |-> j.gb, Score |-> round1(c.score),
                            Risk |-> c.risk]
                  IN  score_benches_skipping(Tail(todo), deterministic,
                                    [raised  |-> FALSE,
                                     results |-> Append(st.results, r),
                                     rng     |-> c.rng,
                                     draws   |-> st.draws + c.draws])

\* app.py:211-216: score the benches in order; a bench id the catalog does
\* not hold raises StopIteration out of the callback
RECURSIVE score_benches(_, _, _)
score_benches(todo, deterministic, st) ==
    IF todo = <<>> THEN st
    ELSE LET j     == Head(todo)
             bench == find_bench(j.bench_id)
         IN  IF bench = NoBench THEN [st EXCEPT !.raised = TRUE]
             ELSE LET c == compute_score(j.gr, j.gv, j.gb, bench.slope,
                                         deterministic, st.rng)
                      r == [Bench |-> j.bench_id, Slope |-> bench.slope,
                            Rainfall |-> j.gr, Vibration |-> j.gv,
                            Blast |-> j.gb, Score |-> round1(c.score),
                            Risk |-> c.risk]
                  IN  score_benches(Tail(todo), deterministic,
                                    [raised  |-> FALSE,
                                     results |-> Append(st.results, r),
                                     rng     |-> c.rng,
                                     draws   |-> st.draws + c.draws])

\* app.py:203-216: the readings, then the result list
dashboard_results(gs, args, mode, x) ==
    LET deterministic == (mode = "Manual")
        rd == draw_readings(args, mode, x)
        st == score_benches(bench_jobs(gs, rd.in), deterministic,
                            [raised |-> FALSE, results |-> <<>>,
                             rng |-> rd.rng, draws |-> rd.draws])
    IN  [raised |-> st.raised, in |-> rd.in, results |-> st.results,
         rng |-> st.rng, draws |-> st.draws]

HistoryKeys == <<"rain1", "vib1", "blast1", "rain2", "vib2", "blast2">>

Range(s) == {s[i] : i \in 1..Len(s)}

\* app.py:218-220: the dict appended to history; a later result of the same
\* bench id overwrites an earlier one, and a bench key overwrites a reading key
history_record(in, results) ==
    LET ids == {results[i].Bench : i \in 1..Len(results)}
        last(b) == CHOOSE i \in 1..Len(results) :
                       /\ results[i].Bench = b
                       /\ \A j \in 1..Len(results) : results[j].Bench = b => j <= i
    IN  [k \in Range(HistoryKeys) \cup ids |->
            IF k \in ids THEN results[last(k)].Score ELSE in[k]]

\* app.py:218: history.append(...)
history_append(h, rec) == Append(h, rec)

\* history_trim that pops the newest record (history.pop()) instead of the oldest
history_trim_newest(h) ==
    IF Len(h) > HistoryCap THEN SubSeq(h, 1, Len(h) - 1) ELSE h

\* app.py:221-222: if len(history) > 200: history.pop(0)
history_trim(h) == IF Len(h) > HistoryCap THEN Tail(h) ELSE h

\* app.py:233-236: the table rows, each result with its status glyph
table_data(results) ==
    [i \in 1..Len(results) |->
        [Bench |-> results[i].Bench, Slope |-> results[i].Slope,
         Rainfall |-> results[i].Rainfall, Vibration |-> results[i].Vibration,
         Blast |-> results[i].Blast, Score |-> results[i].Score,
         Risk |-> results[i].Risk, Status |-> risk_icon(results[i].Risk)]]

\* bench_layers that perturbs the slope by the layer index, not twice it
RECURSIVE bench_layers_single_step(_, _, _, _, _)
bench_layers_single_step(r, bench, layer, deterministic, st) ==
    IF layer = 3 THEN st
    ELSE LET c == compute_score(r.Rainfall, r.Vibration, r.Blast,
                                bench.slope + layer, deterministic, st.rng)
             circle == [Bench |-> bench.id, layer |-> layer,
                        radius |-> 30 * (layer + 1), risk |-> c.risk,
                        color |-> risk_color(c.risk), score |-> c.score,
                        tooltip |-> round1(c.score)]
         IN  bench_layers_single_step(r, bench, layer + 1, deterministic,
                          [layers |-> Append(st.layers, circle),
                           rng |-> c.rng, draws |-> st.draws + c.draws])

\* app.py:250-259: the three circles of one result, layer 0 first
RECURSIVE bench_layers(_, _, _, _, _)
bench_layers(r, bench, layer, deterministic, st) ==
    IF layer = 3 THEN st
    ELSE LET c == compute_score(r.Rainfall, r.Vibration, r.Blast,
                                bench.slope + layer * 2, deterministic, st.rng)
             circle == [Bench |-> bench.id, layer |-> layer,
                        radius |-> 30 * (layer + 1), risk |-> c.risk,
                        color |-> risk_color(c.risk), score |-> c.score,
                        tooltip |-> round1(c.score)]
         IN  bench_layers(r, bench, layer + 1, deterministic,
                          [layers |-> Append(st.layers, circle),
                           rng |-> c.rng, draws |-> st.draws + c.draws])

\* app.py:245-260: the circles of every result, in result order
RECURSIVE map_layers(_, _, _)
map_layers(results, deterministic, st) ==
    IF results = <<>> THEN st
    ELSE map_layers(Tail(results), deterministic,
                    bench_layers(Head(results), find_bench(Head(results).Bench),
                                 0, deterministic, st))

\* what a failed invocation leaves: the exception, and no outputs
raised_return(args, mode, c) ==
    [fn |-> "update_dashboard", raised |-> TRUE, mode |-> mode, args |-> args,
     in |-> c.in, data |-> <<>>, layers |-> <<>>, rows |-> 0,
     overlay |-> FALSE, draws |-> c.draws]

\* app.py:274: the outputs of a completed invocation (rows: the rows of
\* hist_df, which the three charts plot; draws: the random numbers it drew)
dashboard_return(args, show_dem, mode, c, l, h) ==
    [fn |-> "update_dashboard", raised |-> FALSE, mode |-> mode, args |-> args,
     in |-> c.in, data |-> table_data(c.results), layers |-> l.layers,
     rows |-> Len(h), overlay |-> (show_dem /\ dem_overlay_path),
     draws |-> l.draws]

\* app.py:201-274 as one sequential invocation
UpdateDashboard(args, show_dem, mode) ==
    \E c \in {dashboard_results(groups, args, mode, rng)} :
        /\ calls' = calls + 1
        /\ UNCHANGED <<groups, dem_overlay_path, pc, req, seen>>
        /\ IF c.raised
           THEN /\ rng' = c.rng
                /\ ret' = raised_return(args, mode, c)
                /\ UNCHANGED <<history, appended, manual>>
           ELSE \E rec \in {history_record(c.in, c.results)} :
                \E l \in {map_layers(c.results, mode = "Manual",
                                     [layers |-> <<>>, rng |-> c.rng,
                                      draws |-> c.draws])} :
                    /\ history' = history_trim(history_append(history, rec))
                    /\ rng' = l.rng
                    /\ ret' = dashboard_return(args, show_dem, mode, c, l, history')
                    /\ appended' = Append(appended, rec)
                    /\ manual' = IF mode = "Manual"
                                 THEN manual \cup {[args |-> args,
                                                    data |-> ret'.data,
                                                    layers |-> l.layers,
                                                    record |-> rec]}
                                 ELSE manual

----------------------------------------------------------------------------
(* export_csv: pandas' DataFrame(history).to_csv().  A line of text is a     *)
(* sequence of symbols: one per character of a number, "," between cells,   *)
(* and a column name as one symbol.                                         *)

Digit(d) == <<"0", "1", "2", "3", "4", "5", "6", "7", "8", "9">>[d + 1]

\* str of a non-negative int
RECURSIVE format_int(_)
format_int(n) ==
    IF n < 10 THEN <<Digit(n)>>
    ELSE Append(format_int(n \div 10), Digit(n % 10))

\* format_float that prints the integer part only, as float_format "%.0f" would
format_float_whole(c) == format_int(c \div 100)

\* repr of a non-negative float (given in centi): the integer part, a point,
\* and the decimals without trailing zeros but at least one
format_float(c) ==
    LET f == c % 100
    IN  format_int(c \div 100) \o <<".">> \o
        (IF f % 10 = 0 THEN <<Digit(f \div 10)>>
         ELSE <<Digit(f \div 10), Digit(f % 10)>>)

\* the columns of DataFrame(history): the keys of the records in insertion
\* order, the six readings and then the benches in result order
frame_columns(h) ==
    IF h = <<>> THEN <<>>
    ELSE LET ids == bench_jobs(groups, h[1])
         IN  HistoryKeys \o [i \in 1..Len(ids) |-> ids[i].bench_id]

\* the rainfall and blast columns hold ints; the vibration and score columns
\* hold floats (a vibration column of ints only prints without the point and
\* reads back as the same number)
format_cell(k, v) ==
    IF k \in {"rain1", "blast1", "rain2", "blast2"} THEN format_int(v)
    ELSE format_float(v)

RECURSIVE join_cells(_)
join_cells(cells) ==
    IF Len(cells) = 0 THEN <<>>
    ELSE IF Len(cells) = 1 THEN cells[1]
    ELSE cells[1] \o <<",">> \o join_cells(Tail(cells))

\* df.to_csv(): the header (its first cell, the index name, is empty), then
\* one line per row, each led by the row's index from 0
to_csv(h) ==
    LET cols == frame_columns(h)
        header == IF h = <<>> THEN << "\"\"" >>
                  ELSE join_cells(<< <<>> >> \o [i \in 1..Len(cols) |-> <<cols[i]>>])
        row(n) == join_cells(<<format_int(n - 1)>> \o
                             [i \in 1..Len(cols) |-> format_cell(cols[i], h[n][cols[i]])])
    IN  <<header>> \o [n \in 1..Len(h) |-> row(n)]

\* app.py:281-283
export_csv(h) ==
    [fn |-> "export_csv", raised |-> FALSE, filename |-> "risk_report.csv",
     content |-> to_csv(h)]

----------------------------------------------------------------------------
(* The callbacks as the browser triggers them *)

\* app.py:171-175: (manual style, auto style, timer disabled)
toggle_mode(mode) ==
    IF mode = "Manual"
    THEN [manual_controls |-> "block", auto_controls |-> "none", disabled |-> TRUE]
    ELSE [manual_controls |-> "none", auto_controls |-> "block", disabled |-> FALSE]

\* a browser loads the page: the controls show their defaults and Dash makes
\* the initial call of toggle_mode and update_dashboard (export_csv has
\* prevent_initial_call)
PageLoad ==
    /\ ui' = [DefaultUi EXCEPT !.loaded = TRUE,
                               !.timer_disabled = toggle_mode(DefaultUi.mode).disabled]
    /\ UpdateDashboard(slider_args(DefaultUi), DefaultUi.show_dem, DefaultUi.mode)

\* the user moves one slider (the sliders are displayed in Manual only)
SliderChange(id, v) ==
    /\ ui.loaded
    /\ toggle_mode(ui.mode).manual_controls = "block"
    /\ v # ui[id]
    /\ ui' = [ui EXCEPT ![id] = v]
    /\ UpdateDashboard(slider_args(ui'), ui.show_dem, ui.mode)

\* the user picks the other mode: toggle_mode runs; mode is a State of
\* update_dashboard, not an Input, so update_dashboard does not
ModeChange(m) ==
    /\ ui.loaded
    /\ m # ui.mode
    /\ ui' = [ui EXCEPT !.mode = m, !.timer_disabled = toggle_mode(m).disabled]
    /\ UNCHANGED <<history, rng, groups, dem_overlay_path, ret, appended, calls,
                   manual, pc, req, seen>>

\* the dcc.Interval fires (n_intervals changes; the body never reads it)
TimerTick ==
    /\ ui.loaded
    /\ ~ui.timer_disabled
    /\ UNCHANGED ui
    /\ UpdateDashboard(slider_args(ui), ui.show_dem, ui.mode)

\* the user ticks or unticks "Show DEM Overlay" (disabled without a DEM)
DemToggle ==
    /\ ui.loaded
    /\ dem_overlay_path
    /\ ui' = [ui EXCEPT !.show_dem = ~ui.show_dem]
    /\ UpdateDashboard(slider_args(ui), ui'.show_dem, ui.mode)

\* the user clicks "Export CSV"
ExportClick ==
    /\ ui.loaded
    /\ ret' = export_csv(history)
    /\ UNCHANGED <<history, rng, groups, dem_overlay_path, ui, appended, calls,
                   manual, pc, req, seen>>

----------------------------------------------------------------------------
(* Specifications *)

Threads == {1, 2}

NoRet == [fn |-> "none", raised |-> FALSE]

InitWith(gs) ==
    /\ history = <<>>
    /\ rng \in Seeds
    /\ groups = gs
    /\ dem_overlay_path \in BOOLEAN
    /\ ui = DefaultUi
    /\ ret = NoRet
    /\ appended = <<>>
    /\ calls = 0
    /\ manual = {}
    /\ pc = [t \in Threads |-> "idle"]
    /\ req = [t \in Threads |-> NoRet]
    /\ seen = 0

Init == InitWith(CatalogGroups)

Next ==
    \/ calls < MaxCalls /\ PageLoad
    \/ calls < MaxCalls /\ \E id \in SliderIds : \E v \in SliderValues(id) : SliderChange(id, v)
    \/ \E m \in {"Manual", "Auto"} : ModeChange(m)
    \/ calls < MaxCalls /\ TimerTick
    \/ calls < MaxCalls /\ DemToggle
    \/ ExportClick

Spec == Init /\ [][Next]_vars

\* the long run: the user sets the controls up during the first EditCalls
\* invocations and then leaves the dashboard running on its timer and toggles
\* the DEM overlay until the buffer has been full for a while; exports are
\* taken while the buffer is nearly empty and once it is about full
NextCap ==
    \/ calls < EditCalls /\ PageLoad
    \/ calls < EditCalls /\ \E v \in SliderValues("vib1") : SliderChange("vib1", v)
    \/ calls < EditCalls /\ \E m \in {"Manual", "Auto"} : ModeChange(m)
    \/ calls < CapCalls /\ TimerTick
    \/ calls < CapCalls /\ DemToggle
    \/ (Len(history) < EditCalls \/ Len(history) >= HistoryCap - 1) /\ ExportClick

SpecCap == Init /\ [][NextCap]_vars

----------------------------------------------------------------------------
(* A corrupted catalog: a group names a bench the catalog does not hold *)

CorruptGroups ==
    { << [benches |-> <<"Bench 1", "Bench 2">>],
         [benches |-> <<"Bench 3", "Bench 5">>] >>,
      << [benches |-> <<"Bench 0", "Bench 2">>],
         [benches |-> <<"Bench 3", "Bench 4">>] >> }

InitCatalog == \E gs \in CorruptGroups \cup {CatalogGroups} : InitWith(gs)

SpecCatalog == InitCatalog /\ [][Next]_vars

----------------------------------------------------------------------------
(* Concurrent requests.  app.run() serves every request on a thread of its  *)
(* own, so two callbacks can be in flight; the interpreter switches threads *)
(* between the statements below, each of which is one list operation.       *)

\* a worker takes a page's initial update_dashboard request (Manual, the
\* default sliders) and runs app.py:203-216, which touches no shared state
ThreadAccept(t) ==
    /\ pc[t] = "idle"
    /\ \E c \in {dashboard_results(groups, slider_args(DefaultUi), "Manual", rng)} :
           req' = [req EXCEPT ![t] = [fn |-> "update_dashboard", raised |-> c.raised,
                                      record |-> history_record(c.in, c.results)]]
    /\ calls' = calls + 1
    /\ pc' = [pc EXCEPT ![t] = "append"]
    /\ UNCHANGED <<history, rng, groups, dem_overlay_path, ui, ret, appended,
                   manual, seen>>

\* app.py:218
ThreadAppend(t) ==
    /\ pc[t] = "append"
    /\ history' = history_append(history, req[t].record)
    /\ appended' = Append(appended, req[t].record)
    /\ pc' = [pc EXCEPT ![t] = "check"]
    /\ UNCHANGED <<rng, groups, dem_overlay_path, ui, ret, calls, manual, req, seen>>

\* app.py:221
ThreadCheck(t) ==
    /\ pc[t] = "check"
    /\ pc' = [pc EXCEPT ![t] = IF Len(history) > HistoryCap THEN "pop" ELSE "frame"]
    /\ UNCHANGED <<history, rng, groups, dem_overlay_path, ui, ret, appended,
                   calls, manual, req, seen>>

\* app.py:222
ThreadPop(t) ==
    /\ pc[t] = "pop"
    /\ history' = Tail(history)
    /\ pc' = [pc EXCEPT ![t] = "frame"]
    /\ UNCHANGED <<rng, groups, dem_overlay_path, ui, ret, appended, calls,
                   manual, req, seen>>

\* app.py:224: hist_df = pd.DataFrame(history) reads the shared list; the
\* rest of the callback works on its own copies and returns
ThreadFrame(t) ==
    /\ pc[t] = "frame"
    /\ seen' = IF Len(history) > seen THEN Len(history) ELSE seen
    /\ pc' = [pc EXCEPT ![t] = "idle"]
    /\ req' = [req EXCEPT ![t] = NoRet]
    /\ UNCHANGED <<history, rng, groups, dem_overlay_path, ui, ret, appended,
                   calls, manual>>

\* app.py:282: an export request reads the shared list in one statement
ThreadExport(t) ==
    /\ pc[t] = "idle"
    /\ seen < Len(history)
    /\ seen' = Len(history)
    /\ UNCHANGED <<history, rng, groups, dem_overlay_path, ui, ret, appended,
                   calls, manual, pc, req>>

NextConc ==
    \E t \in Threads :
        \/ calls < ConcCalls /\ ThreadAccept(t)
        \/ ThreadAppend(t)
        \/ ThreadCheck(t)
        \/ ThreadPop(t)
        \/ ThreadFrame(t)
        \/ ThreadExport(t)

SpecConc == Init /\ [][NextConc]_vars

----------------------------------------------------------------------------
(* The scorer on its own: compute_score applied once to arguments drawn    *)
(* from the whole slider ranges (app.py:108-120) and the catalog's slopes  *)

\* the slider ranges: rainfall 0..200 by 1, vibration 0..10 by 0.1 (centi),
\* blast 0..5 by 1
RainRange == 0..200
VibRange == {10 * n : n \in 0..100}
BlastRange == 0..5
BenchSlopes == {benches[i].slope : i \in 1..Len(benches)}

\* one call compute_score(rain, vib, blast, slope, deterministic)
ScoreCall(rain, vib, blast, slope, deterministic) ==
    \E c \in {compute_score(rain, vib, blast, slope, deterministic, rng)} :
        /\ ret' = [fn |-> "compute_score", raised |-> FALSE,
                   rain |-> rain, vib |-> vib, blast |-> blast,
                   slope |-> slope, deterministic |-> deterministic,
                   risk |-> c.risk, score |-> c.score, draws |-> c.draws]
        /\ rng' = c.rng
        /\ UNCHANGED <<history, groups, dem_overlay_path, ui, appended, calls,
                       manual, pc, req, seen>>

\* one call per run: every deterministic call of the slider ranges, and the
\* stochastic calls at the ends and the middle of the ranges
NextScorer ==
    \/ /\ ret = NoRet
       /\ \E rain \in RainRange : \E vib \in VibRange : \E blast \in BlastRange :
              \E slope \in BenchSlopes : ScoreCall(rain, vib, blast, slope, TRUE)
    \/ /\ ret = NoRet
       /\ \E rain \in {0, 100, 200} : \E vib \in {0, 500, 1000} : \E blast \in BlastRange :
              \E slope \in BenchSlopes : ScoreCall(rain, vib, blast, slope, FALSE)

InitScorer == InitWith(CatalogGroups) /\ ~dem_overlay_path

SpecScorer == InitScorer /\ [][NextScorer]_vars

----------------------------------------------------------------------------
(* Vocabulary of the properties *)

Min(a, b) == IF a < b THEN a ELSE b

BenchIds == [i \in 1..Len(benches) |-> benches[i].id]

\* the last invocation of update_dashboard completed and returned outputs
Returned == ret.fn = "update_dashboard" /\ ~ret.raised

\* the score the deterministic formula gives, in centi:
\* slope/2 + rain*0.4 + (vib + 2.0*blast)*5 + blast*3
ExpectedScore(rain, vib, blast, slope) ==
    slope * 50 + rain * 40 + (vib + 200 * blast) * 5 + blast * 300

ExpectedRisk(score) ==
    IF score < 4000 THEN "Low" ELSE IF score < 7000 THEN "Medium" ELSE "High"

Severity(risk) == CASE risk = "Low" -> 0 [] risk = "Medium" -> 1 [] risk = "High" -> 2

\* the layer of result i (from 1) with layer index k (from 0)
LayerOf(i, k) == ret.layers[3 * (i - 1) + k + 1]

\* the group reading the i-th bench of the catalog is scored with
ReadingOf(in, i) ==
    IF i <= 2 THEN [rain |-> in.rain1, vib |-> in.vib1, blast |-> in.blast1]
    ELSE [rain |-> in.rain2, vib |-> in.vib2, blast |-> in.blast2]

----------------------------------------------------------------------------
(* Reading a CSV text back *)

DigitVal(ch) == CHOOSE d \in 0..9 : Digit(d) = ch

RECURSIVE parse_int(_)
parse_int(cell) ==
    IF Len(cell) = 0 THEN 0
    ELSE 10 * parse_int(SubSeq(cell, 1, Len(cell) - 1)) + DigitVal(cell[Len(cell)])

\* a cell with a point is a float and is read in centi
parse_number(cell) ==
    IF \E i \in 1..Len(cell) : cell[i] = "."
    THEN LET dot  == CHOOSE i \in 1..Len(cell) : cell[i] = "."
             frac == SubSeq(cell, dot + 1, Len(cell))
         IN  100 * parse_int(SubSeq(cell, 1, dot - 1))
               + (IF Len(frac) = 1 THEN 10 * parse_int(frac) ELSE parse_int(frac))
    ELSE parse_int(cell)

\* the cells of a line: the symbols between the commas
RECURSIVE split_cells(_, _, _)
split_cells(line, cur, acc) ==
    IF line = <<>> THEN Append(acc, cur)
    ELSE IF Head(line) = "," THEN split_cells(Tail(line), <<>>, Append(acc, cur))
    ELSE split_cells(Tail(line), Append(cur, Head(line)), acc)

\* the records of a CSV text: the header names the columns, the first
\* column is the index
parse_csv(lines) ==
    IF lines[1] = << "\"\"" >> THEN <<>>
    ELSE LET header == split_cells(lines[1], <<>>, <<>>)
             col(k) == CHOOSE j \in 2..Len(header) : header[j] = <<k>>
             names  == {header[j][1] : j \in 2..Len(header)}
         IN  [n \in 1..(Len(lines) - 1) |->
                LET cells == split_cells(lines[n + 1], <<>>, <<>>)
                IN  [k \in names |-> parse_number(cells[col(k)])]]

----------------------------------------------------------------------------
(* Properties *)

\* C1: after n sequential invocations the buffer holds exactly the records
\* of the last min(n, 200) invocations in invocation order: every invocation
\* appended one record at the end, the buffer never holds more than 200 once
\* an invocation has returned, and the 201st append evicts the oldest record
\* and only it.
C1_HistoryWindow ==
    /\ Len(appended) = calls
    /\ Len(history) = Min(calls, HistoryCap)
    /\ history = SubSeq(appended, calls - Len(history) + 1, calls)
    /\ Returned => ret.rows = Len(history) /\ ret.rows <= HistoryCap

\* the 201st record has just been appended and the first one evicted
C1_OldestEvicted ==
    /\ Returned
    /\ calls = HistoryCap + 1
    /\ Len(history) = HistoryCap
    /\ appended[1] # appended[2]
    /\ history[1] = appended[2]
    /\ history[HistoryCap] = appended[calls]

\* C2: with callbacks in flight on two threads, no observer (a tick's
\* DataFrame(history) or export_csv) reads a buffer of more than 200 records,
\* and once all callbacks have returned the buffer holds the last
\* min(n, 200) appended records, none lost beyond the cap's evictions.
C2_CriticalSection ==
    /\ seen <= HistoryCap
    /\ (\A t \in Threads : pc[t] = "idle")
           => Len(history) = Min(Len(appended), HistoryCap)

\* C3: every score compute_score returns is classified Low below 40, Medium
\* from 40 up to but not including 70, High from 70 on: one class each, so
\* 40 is Medium and 70 is High.
C3_Classification ==
    (ret.fn = "compute_score") =>
        /\ ret.risk \in {"Low", "Medium", "High"}
        /\ (ret.score < 4000) <=> (ret.risk = "Low")
        /\ (4000 <= ret.score /\ ret.score < 7000) <=> (ret.risk = "Medium")
        /\ (ret.score >= 7000) <=> (ret.risk = "High")
        /\ (ret.score = 4000) => (ret.risk = "Medium")
        /\ (ret.score = 7000) => (ret.risk = "High")

\* a score of exactly 70 was classified High
C3_Boundary ==
    ret.fn = "compute_score" /\ ret.score = 7000 /\ ret.risk = "High"

\* C4: in deterministic mode, for every input of the slider ranges, the score
\* is slope/2 + rain*0.4 + (vib + 2.0*blast)*5 + blast*3 with no noise and no
\* draw; (10, 1, 0, slope 35) gives 26.5 and Low, (200, 10, 5, slope 60)
\* gives 225 and High.
C4_DeterministicScore ==
    (ret.fn = "compute_score" /\ ret.deterministic) =>
        /\ ret.score = ExpectedScore(ret.rain, ret.vib, ret.blast, ret.slope)
        /\ ret.risk = ExpectedRisk(ret.score)
        /\ ret.draws = 0
        /\ rng \in Seeds
        /\ (ret.rain = 10 /\ ret.vib = 100 /\ ret.blast = 0 /\ ret.slope = 35)
               => (ret.score = 2650 /\ ret.risk = "Low")
        /\ (ret.rain = 200 /\ ret.vib = 1000 /\ ret.blast = 5 /\ ret.slope = 60)
               => (ret.score = 22500 /\ ret.risk = "High")

\* the second worked example was scored
C4_Example ==
    /\ ret.fn = "compute_score" /\ ret.deterministic
    /\ ret.rain = 200 /\ ret.vib = 1000 /\ ret.blast = 5 /\ ret.slope = 60
    /\ ret.score = 22500 /\ ret.risk = "High"

\* C5: a Manual invocation draws no random number, and two Manual
\* invocations with the same six slider values return the same table, the
\* same layers and append the same record, whatever came before them.
C5_ManualDeterministic ==
    /\ \A a \in manual : \A b \in manual : (a.args = b.args) => (a = b)
    /\ (ret.fn = "update_dashboard" /\ ret.mode = "Manual") => ret.draws = 0

\* a Manual invocation repeated the first one's slider values after an Auto
\* tick had drawn from the generator
C5_RepeatedAfterAuto ==
    /\ Returned /\ ret.mode = "Manual"
    /\ rng \notin Seeds
    /\ Len(appended) >= 3
    /\ appended[Len(appended)] = appended[1]

\* C6: every invocation returns one result per bench of the catalog, in
\* group order then bench order, each with its own group's reading; the
\* record it appends holds both groups' readings and, for every bench id,
\* that bench's result score; no record of the buffer lacks a bench score.
C6_OneResultPerBench ==
    /\ \A n \in 1..Len(history) : Range(BenchIds) \subseteq DOMAIN history[n]
    /\ Returned =>
        /\ Len(ret.data) = Len(benches)
        /\ \A i \in 1..Len(ret.data) :
               /\ ret.data[i].Bench = benches[i].id
               /\ ret.data[i].Slope = benches[i].slope
               /\ ret.data[i].Rainfall = ReadingOf(ret.in, i).rain
               /\ ret.data[i].Vibration = ReadingOf(ret.in, i).vib
               /\ ret.data[i].Blast = ReadingOf(ret.in, i).blast
               /\ history[Len(history)][benches[i].id] = ret.data[i].Score
        /\ DOMAIN history[Len(history)] = Range(HistoryKeys) \cup Range(BenchIds)
        /\ \A k \in Range(HistoryKeys) : history[Len(history)][k] = ret.in[k]

\* an invocation whose two groups had different readings
C6_TwoReadings ==
    /\ Returned
    /\ Len(history) >= 2
    /\ ret.in.rain1 # ret.in.rain2
    /\ ret.data[2].Rainfall # ret.data[3].Rainfall

\* C7: the export has one row per record of the buffer (as many rows as
\* invocations recorded, at most 200), in buffer order and with each
\* record's field values, and the export leaves the buffer as it was.
C7_ExportRoundTrip ==
    (ret.fn = "export_csv") =>
        /\ Len(ret.content) = Len(history) + 1
        /\ Len(history) = Min(calls, HistoryCap)
        /\ parse_csv(ret.content) = history

\* an export of the full buffer after the first eviction
C7_FullExport ==
    /\ ret.fn = "export_csv"
    /\ ui.mode = "Auto"
    /\ calls > HistoryCap
    /\ Len(ret.content) = HistoryCap + 1

\* some group names a bench id the catalog does not hold
CatalogBroken ==
    \E g \in 1..Len(groups) : \E i \in 1..Len(groups[g].benches) :
        find_bench(groups[g].benches[i]) = NoBench

\* C8: with a group naming an unknown bench id every invocation fails: it
\* returns no results and no outputs and appends nothing to the buffer.
C8_FatalLookup ==
    CatalogBroken =>
        /\ history = <<>>
        /\ appended = <<>>
        /\ (ret.fn = "update_dashboard") =>
               (ret.raised /\ ret.data = <<>> /\ ret.layers = <<>> /\ ret.rows = 0)

\* an Auto invocation failed on the last bench, after three were scored
C8_FailedLate ==
    /\ CatalogBroken
    /\ find_bench(groups[1].benches[1]) # NoBench
    /\ ret.fn = "update_dashboard" /\ ret.raised /\ ret.mode = "Auto"
    /\ ret.draws > 6
    /\ calls >= 2

\* C9: the record an Auto invocation appends holds, per group, a rainfall in
\* 0..200, a vibration in 0..10 to one decimal and a blast count in 0..5;
\* the record a Manual invocation appends holds the six slider values.
C9_Readings ==
    Returned =>
        LET rec == history[Len(history)]
        IN  /\ (ret.mode = "Auto") =>
                   /\ rec.rain1 \in 0..200 /\ rec.rain2 \in 0..200
                   /\ rec.vib1 \in 0..1000 /\ rec.vib2 \in 0..1000
                   /\ rec.vib1 % 10 = 0 /\ rec.vib2 % 10 = 0
                   /\ rec.blast1 \in 0..5 /\ rec.blast2 \in 0..5
            /\ (ret.mode = "Manual") =>
                   \A k \in Range(HistoryKeys) : rec[k] = ret.args[k]

\* an Auto invocation recorded drawn readings, not the sliders' values, and
\* different ones for the two groups
C9_FreshReadings ==
    /\ Returned /\ ret.mode = "Auto"
    /\ history[Len(history)].rain1 # ret.args.rain1
    /\ history[Len(history)].vib2 # ret.args.vib2
    /\ history[Len(history)].rain1 # history[Len(history)].rain2

\* C10: every result has three layers, layer k with radius 30*(k+1); in
\* Manual mode layer k scores the bench's primary score plus k, so layer 0
\* has the result's class and the class never gets less severe from layer 0
\* to layer 2; in Auto mode layer k is scored on the same reading with slope
\* + 2*k and fresh draws.
C10_Layers ==
    Returned =>
        /\ Len(ret.layers) = 3 * Len(ret.data)
        /\ \A i \in 1..Len(ret.data) : \A k \in 0..2 :
               LET d == ret.data[i]
                   l == LayerOf(i, k)
               IN  /\ l.Bench = d.Bench /\ l.layer = k /\ l.radius = 30 * (k + 1)
                   /\ l.color = risk_color(l.risk)
                   /\ (ret.mode = "Manual") =>
                          /\ l.score = d.Score + 100 * k
                          /\ l.score = ExpectedScore(d.Rainfall, d.Vibration,
                                                     d.Blast, d.Slope) + 100 * k
                          /\ d.Risk = ExpectedRisk(d.Score)
                          /\ (k = 0) => (l.risk = d.Risk)
                          /\ (k > 0) => Severity(l.risk) >= Severity(LayerOf(i, k - 1).risk)
                   /\ (ret.mode = "Auto") =>
                          /\ l.score >= (d.Slope + 2 * k) * 50 + d.Rainfall * 40
                                        + (d.Vibration + 150 * d.Blast) * 5
                                        + d.Blast * 300 - 500
                          /\ l.score <= (d.Slope + 2 * k) * 50 + d.Rainfall * 40
                                        + (d.Vibration + 300 * d.Blast) * 5
                                        + d.Blast * 300 + 500

\* a Manual result whose outer layer is in a more severe class than layer 0
C10_Escalates ==
    /\ Returned /\ ret.mode = "Manual"
    /\ \E i \in 1..Len(ret.data) :
           Severity(LayerOf(i, 2).risk) > Severity(LayerOf(i, 0).risk)

====
